---------------------------- MODULE Spec2Model ----------------------------
(***************************************************************************)
(* Multi-carrier shipment tracking of atrasks/fenxi-ecommerce.             *)
(*                                                                         *)
(* The repository holds three versions of the shipping controller:        *)
(*   A  backend/src/controllers/shippingController.js (asyncHandler),      *)
(*      on models/Shipping.js (field order, unique index, statusHistory)   *)
(*   B  unnamed/part_000 lines 1-413 (orderId-based, the one the router    *)
(*      binds), on unnamed/part_001 (field orderId, plain index)           *)
(*   C  unnamed/part_000 lines 414-909 (exports.xyz), on models/Shipping.js *)
(*                                                                         *)
(* Every handler is a sequence of steps, one per await:   between two      *)
(* awaits the handler runs alone (one JavaScript thread), at an await      *)
(* another request may run.  A request slot holds the handler's locals:    *)
(* the loaded shipment document, the fetched tracking info, the loaded     *)
(* order.  Dates are hours on an integer clock.                            *)
(***************************************************************************)
EXTENDS Integers, Sequences, FiniteSets, TLC

VARIABLES
  now,        \* the clock (Date.now / new Date()), in hours
  shipments,  \* the Shipping collection: the documents of the one order, in insertion order
  order,      \* the Order document the shipments belong to
  req,        \* the requests in flight: slot -> handler locals and position
  ops,        \* number of requests accepted so far
  orderFaults, \* whether the Order collaborator may fail (fixed per behaviour)
  svc         \* the last call made on services/shippingService.js directly

vars == <<now, shipments, order, req, ops, orderFaults, svc>>

---------------------------------------------------------------------------
(* Bounds of the model *)

MaxTime == 9            \* the clock stops here
MaxOps == 3             \* requests accepted in one behaviour
MaxHistoryCount == 3    \* events in one fetched history (the code draws 3..8)
MaxMockEvents == 4      \* events in one generated mock response (the code draws 3..8)
MaxNativeEvents == 2    \* events in one carrier response handed to parseResponse

(* Program constants *)

SixHours == 6           \* 6 * 60 * 60 * 1000 ms, in hours
DayHours == 24          \* 24 * 60 * 60 * 1000 ms, in hours
MinHistoryCount == 3    \* Math.floor(Math.random() * 6) + 3
NoDate == -1            \* a date field holding null

TickHours == {3}        \* granularity of the clock
Slots == {1, 2}         \* request slots of the concurrent specifications
SeqSlots == {1}         \* the one slot of the sequential specifications

---------------------------------------------------------------------------
(* Statuses *)

CanonicalStatuses ==
  {"pending", "in_transit", "out_for_delivery", "delivered", "exception",
   "returned", "unknown"}

\* enum of status and of statusHistory.status in models/Shipping.js
ShippingStatusEnum == {"pending", "in_transit", "delivered", "exception", "returned"}

\* result statuses drawn for a fetch: mapStatus of every adapter yields pending,
\* in_transit, delivered or exception; a mock response in_transit or delivered
FetchStatuses == {"pending", "in_transit", "delivered"}

\* the status a request body may carry ("" : none given)
RequestStatuses == {"", "in_transit", "delivered", "unknown"}

\* the deliveredDate a request body may carry (NoDate : none given)
RequestDates == {NoDate, 0}

\* the statusCode a tracking-event request may carry ("" : none given)
RequestStatusCodes == {"", "transit", "delivered", "in_transit"}

CarrierCodes == {"dhl", "fedex"}

\* enum of carrier in unnamed/part_001 (its three non-Latin names left out:
\* no request of the model carries them)
CarrierEnumB == {"DHL", "UPS", "FedEx", "TNT", "17Track"}

\* the carrier a request to controller B may carry
CarrierNamesB == {"DHL", "dhl"}

\* req.params.orderId as controller B reads it: the order's id, or undefined
\* when the route names its parameter otherwise (/refresh/:trackingNumber)
RouteOrderIds == {"order", "undefined"}

---------------------------------------------------------------------------
(* services/shippingService.js *)

\* String.prototype.toLowerCase on the carrier strings of the model
toLowerCase(c) ==
  CASE c = "DHL" -> "dhl"
    [] c = "Dhl" -> "dhl"
    [] c = "UPS" -> "ups"
    [] c = "17TRACK" -> "17track"
    [] c = "CN" -> "cn"
    [] c = "YunTu" -> "yuntu"
    [] c = "Ups" -> "ups"
    [] c = "17Track" -> "17track"
    [] c = "CAINIAO" -> "cainiao"
    [] c = "CaiNiao" -> "cainiao"
    [] c = "Cn" -> "cn"
    [] c = "YUNEXPRESS" -> "yunexpress"
    [] c = "YunExpress" -> "yunexpress"
    [] c = "YUN" -> "yun"
    [] c = "YUNTU" -> "yuntu"
    [] c = "FedEx" -> "fedex"
    [] c = "UnknownCarrierXYZ" -> "unknowncarrierxyz"
    [] OTHER -> c

\* the case labels of createShippingTracker
KnownCarrierCodes ==
  {"dhl", "ups", "17track", "17", "cainiao", "cn", "yunexpress", "yun", "yuntu"}

\* the carrier strings handed to createShippingTracker directly
ServiceCarriers ==
  KnownCarrierCodes \cup
  {"DHL", "Dhl", "UPS", "Ups", "17TRACK", "17Track", "CN", "Cn", "CAINIAO", "CaiNiao",
   "YUNEXPRESS", "YunExpress", "YUN", "YUNTU", "YunTu", "FedEx", "fedex",
   "UnknownCarrierXYZ", "dhl express", ""}

\* mutant: the switch on the carrier as given, without toLowerCase
createShippingTracker_CaseSensitive(carrier) ==
  CASE carrier = "dhl" -> "DHLTracker"
    [] carrier = "ups" -> "UPSTracker"
    [] carrier \in {"17track", "17"} -> "SeventeenTrackTracker"
    [] carrier \in {"cainiao", "cn"} -> "CainiaoTracker"
    [] carrier \in {"yunexpress", "yun", "yuntu"} -> "YunExpressTracker"
    [] OTHER -> "MockTracker"

\* mutant: a factory without the default branch, answering no adapter
createShippingTracker_NoDefault(carrier) ==
  LET carrierLower == toLowerCase(carrier) IN
  CASE carrierLower = "dhl" -> "DHLTracker"
    [] carrierLower = "ups" -> "UPSTracker"
    [] carrierLower \in {"17track", "17"} -> "SeventeenTrackTracker"
    [] carrierLower \in {"cainiao", "cn"} -> "CainiaoTracker"
    [] carrierLower \in {"yunexpress", "yun", "yuntu"} -> "YunExpressTracker"
    [] OTHER -> "undefined"

createShippingTracker(carrier) ==
  LET carrierLower == toLowerCase(carrier) IN
  CASE carrierLower = "dhl" -> "DHLTracker"
    [] carrierLower = "ups" -> "UPSTracker"
    [] carrierLower \in {"17track", "17"} -> "SeventeenTrackTracker"
    [] carrierLower \in {"cainiao", "cn"} -> "CainiaoTracker"
    [] carrierLower \in {"yunexpress", "yun", "yuntu"} -> "YunExpressTracker"
    [] OTHER -> "MockTracker"

\* MockTracker defines getTracking and generateMockResponse only
hasMapStatusCode(tracker) == tracker # "MockTracker"

\* statusMap is an object literal: statusMap[key] answers the literal's own
\* entry, else the member of that name inherited from Object.prototype, else
\* undefined; only undefined (or another falsy value) falls through || 'unknown'
ObjectPrototypeKeys == {"constructor", "toString", "valueOf", "hasOwnProperty", "__proto__"}

\* what statusMap[key] answers for an inherited name: a function or an object
InheritedMember == "[object]"

\* the keys of each adapter's statusMap, and the numbers 17Track compares with
\* (its codes are numbers; the numerals stand for them)
DHLStatusCodes == {"pre-transit", "transit", "delivered", "failure", "unknown"}

UPSStatusCodes == {"I", "P", "O", "D", "X"}

SeventeenTrackStatusCodes == {"0", "10", "30", "40"}

CainiaoStatusCodes == {"CREATED", "PICKUP", "TRANSIT", "DELIVERED", "EXCEPTION"}

YunExpressStatusCodes == {"INFO_RECEIVED", "IN_TRANSIT", "DELIVERED", "EXCEPTION"}

DHLmapStatusCode(statusCode) ==
  CASE statusCode = "pre-transit" -> "pending"
    [] statusCode = "transit" -> "in_transit"
    [] statusCode = "delivered" -> "delivered"
    [] statusCode = "failure" -> "exception"
    [] statusCode = "unknown" -> "unknown"
    [] statusCode \in ObjectPrototypeKeys -> InheritedMember
    [] OTHER -> "unknown"

UPSmapStatusCode(statusCode) ==
  CASE statusCode \in {"I", "P"} -> "pending"
    [] statusCode = "O" -> "in_transit"
    [] statusCode = "D" -> "delivered"
    [] statusCode = "X" -> "exception"
    [] statusCode \in ObjectPrototypeKeys -> InheritedMember
    [] OTHER -> "unknown"

\* a chain of === comparisons, no object lookup
SeventeenTrackmapStatusCode(statusCode) ==
  CASE statusCode = "0" -> "pending"
    [] statusCode = "10" -> "in_transit"
    [] statusCode = "30" -> "exception"
    [] statusCode = "40" -> "delivered"
    [] OTHER -> "unknown"

CainiaomapStatusCode(statusCode) ==
  CASE statusCode \in {"CREATED", "PICKUP"} -> "pending"
    [] statusCode = "TRANSIT" -> "in_transit"
    [] statusCode = "DELIVERED" -> "delivered"
    [] statusCode = "EXCEPTION" -> "exception"
    [] statusCode \in ObjectPrototypeKeys -> InheritedMember
    [] OTHER -> "unknown"

YunExpressmapStatusCode(statusCode) ==
  CASE statusCode = "INFO_RECEIVED" -> "pending"
    [] statusCode = "IN_TRANSIT" -> "in_transit"
    [] statusCode = "DELIVERED" -> "delivered"
    [] statusCode = "EXCEPTION" -> "exception"
    [] statusCode \in ObjectPrototypeKeys -> InheritedMember
    [] OTHER -> "unknown"

\* the adapters that define mapStatusCode
Adapters ==
  {"DHLTracker", "UPSTracker", "SeventeenTrackTracker", "CainiaoTracker",
   "YunExpressTracker"}

StatusCodesOf(tracker) ==
  CASE tracker = "DHLTracker" -> DHLStatusCodes
    [] tracker = "UPSTracker" -> UPSStatusCodes
    [] tracker = "SeventeenTrackTracker" -> SeventeenTrackStatusCodes
    [] tracker = "CainiaoTracker" -> CainiaoStatusCodes
    [] tracker = "YunExpressTracker" -> YunExpressStatusCodes
    [] OTHER -> {}

mapStatusCode(tracker, statusCode) ==
  CASE tracker = "DHLTracker" -> DHLmapStatusCode(statusCode)
    [] tracker = "UPSTracker" -> UPSmapStatusCode(statusCode)
    [] tracker = "SeventeenTrackTracker" -> SeventeenTrackmapStatusCode(statusCode)
    [] tracker = "CainiaoTracker" -> CainiaomapStatusCode(statusCode)
    [] tracker = "YunExpressTracker" -> YunExpressmapStatusCode(statusCode)
    [] OTHER -> "unknown"

\* the event status codes a carrier response or a request body may carry
NativeStatusCodes ==
  DHLStatusCodes \cup UPSStatusCodes \cup SeventeenTrackStatusCodes \cup
  CainiaoStatusCodes \cup YunExpressStatusCodes \cup
  {"", "bogus", "Delivered", "in_transit"} \cup ObjectPrototypeKeys

\* DHLTracker.mapStatus: the carrier-level status of a response
DHLmapStatus(status) ==
  CASE status = "shipping" -> "in_transit"
    [] status = "delivered" -> "delivered"
    [] status = "failure" -> "exception"
    [] OTHER -> "pending"

\* mutant: the events left in the order they were generated
SortDesc_Unsorted(events) == events

\* trackingHistory.sort((a, b) => b.timestamp - a.timestamp): descending by
\* timestamp, events of equal timestamp keeping their order
RECURSIVE InsertDesc(_, _)
InsertDesc(e, sorted) ==
  IF sorted = <<>> THEN <<e>>
  ELSE IF Head(sorted).timestamp >= e.timestamp
       THEN <<Head(sorted)>> \o InsertDesc(e, Tail(sorted))
       ELSE <<e>> \o sorted

RECURSIVE SortDesc(_)
SortDesc(events) ==
  IF events = <<>> THEN <<>>
  ELSE InsertDesc(events[Len(events)], SortDesc(SubSeq(events, 1, Len(events) - 1)))

\* i * (Math.random() + 1) days: the days per step, 1 <= d < 2, in hours
GapHours == {24, 36, 42}

\* generateMockResponse: event i (0-based) lies i * gaps[i + 1] hours back; event 0
\* is delivered or in transit, the last one the creation event, the others in
\* transit; the events are sorted and the first one gives the status
generateMockResponse(tracker, t, historyCount, gaps, delivered) ==
  LET generated ==
        [k \in 1..historyCount |->
           [timestamp |-> IF k = 1 THEN t ELSE t - (k - 1) * gaps[k],
            statusCode |-> IF k = 1 THEN (IF delivered THEN "delivered" ELSE "in_transit")
                           ELSE IF k = historyCount THEN "pending" ELSE "in_transit"]]
      trackingHistory == SortDesc(generated)
      currentStatus == trackingHistory[1].statusCode
  IN [status |-> currentStatus,
      trackingHistory |-> trackingHistory,
      estimatedDeliveryDate |->
        IF currentStatus # "delivered" /\ tracker # "SeventeenTrackTracker"
        THEN t + DayHours ELSE NoDate]

\* the responses generateMockResponse can return at time t
MockResponses(tracker, t) ==
  UNION {{generateMockResponse(tracker, t, n, gaps, delivered) :
            gaps \in [2..n -> GapHours], delivered \in BOOLEAN} :
          n \in MinHistoryCount..MaxMockEvents}

\* the carrier-level statuses of a DHL response ("" : the field is absent)
DHLStatuses == {"", "transit", "shipping", "delivered", "failure"}

\* the events of a DHL response
NativeEvents ==
  UNION {[1..n -> [timestamp : {0, 24}, statusCode : {"transit", "delivered", "bogus"}]] :
           n \in 0..MaxNativeEvents}

\* DHLTracker.parseResponse of a response that has a shipment
DHLparseResponse(status, events, estimate) ==
  [status |-> DHLmapStatus(status),
   trackingHistory |->
     SortDesc([k \in 1..Len(events) |->
                [timestamp |-> events[k].timestamp,
                 statusCode |-> DHLmapStatusCode(events[k].statusCode)]]),
   estimatedDeliveryDate |-> estimate]

\* The events of a response, newest first as the adapter returns them after its
\* sort: event i (0-based) lies i days back; the newest carries the result's
\* status, the oldest is the creation event, the others are in transit.
MockHistory(t, historyCount, currentStatus) ==
  [k \in 1..historyCount |->
     [timestamp |-> t - (k - 1) * DayHours,
      statusCode |-> IF k = 1 THEN currentStatus
                     ELSE IF k = historyCount THEN "pending" ELSE "in_transit"]]

\* no estimate once delivered, and never from 17Track
EstimateOf(tracker, t, currentStatus) ==
  IF currentStatus = "delivered" \/ tracker = "SeventeenTrackTracker"
  THEN NoDate ELSE t + DayHours

\* the results getTracking can resolve to at time t
TrackingResults(carrier, t) ==
  {[status |-> s,
    trackingHistory |-> MockHistory(t, n, s),
    estimatedDeliveryDate |-> EstimateOf(createShippingTracker(carrier), t, s)] :
     s \in FetchStatuses, n \in MinHistoryCount..MaxHistoryCount}

NoInfo == [status |-> "", trackingHistory |-> <<>>, estimatedDeliveryDate |-> NoDate]

---------------------------------------------------------------------------
(* models/Shipping.js and the Order collaborator *)

\* version is the document's version key (__v), which the schema leaves enabled
NoShipment ==
  [carrier |-> "", status |-> "", statusHistory |-> <<>>, trackingHistory |-> <<>>,
   deliveredDate |-> NoDate, estimatedDeliveryDate |-> NoDate, lastUpdated |-> NoDate,
   version |-> 0]

\* schema validation run by save(): the two status enums
Validates(doc) ==
  /\ doc.status \in ShippingStatusEnum
  /\ \A i \in 1..Len(doc.statusHistory) : doc.statusHistory[i].status \in ShippingStatusEnum

\* pre('save'): lastUpdated = new Date()
\* mutant: no pre-save hook, save() writes lastUpdated as the handler left it
PreSave_NoHook(doc, t) == doc

PreSave(doc, t) == [doc EXCEPT !.lastUpdated = t]

\* elements pushed onto an array since the document was loaded
Pushed(loadedArr, arr) == SubSeq(arr, Len(loadedArr) + 1, Len(arr))

\* save() of a document whose array was assigned as a whole sends the version
\* it loaded as a condition of the update: a document that another save has
\* versioned since is not matched and save() rejects (VersionError)
VersionConflict(stored, loaded, trackingSet) ==
  trackingSet /\ stored.version # loaded.version

\* an update that assigns or pushes to an array increments the version
TouchesArray(loaded, doc, trackingSet) ==
  \/ trackingSet
  \/ Len(doc.statusHistory) > Len(loaded.statusHistory)
  \/ Len(doc.trackingHistory) > Len(loaded.trackingHistory)

\* What shipping.save() leaves in the database.  The document is `doc` in
\* memory, was `loaded`, and the database now holds `stored`: save() writes the
\* paths the handler changed ($set), appends the elements it pushed ($push),
\* and leaves every other path of the stored document alone.  trackingSet
\* tells an assigned trackingHistory from a pushed one.
SavedDoc(stored, loaded, doc, trackingSet, t) ==
  LET d == PreSave(doc, t) IN
  [carrier |-> IF d.carrier # loaded.carrier THEN d.carrier ELSE stored.carrier,
   status |-> IF d.status # loaded.status THEN d.status ELSE stored.status,
   deliveredDate |->
     IF d.deliveredDate # loaded.deliveredDate THEN d.deliveredDate
     ELSE stored.deliveredDate,
   estimatedDeliveryDate |->
     IF d.estimatedDeliveryDate # loaded.estimatedDeliveryDate
     THEN d.estimatedDeliveryDate ELSE stored.estimatedDeliveryDate,
   lastUpdated |-> d.lastUpdated,
   statusHistory |-> stored.statusHistory \o Pushed(loaded.statusHistory, d.statusHistory),
   trackingHistory |->
     IF trackingSet THEN d.trackingHistory
     ELSE stored.trackingHistory \o Pushed(loaded.trackingHistory, d.trackingHistory),
   version |->
     IF TouchesArray(loaded, d, trackingSet) THEN stored.version + 1 ELSE stored.version]

NoOrder == [exists |-> FALSE, status |-> "", shippedAt |-> NoDate, deliveredAt |-> NoDate]

NewOrder == [exists |-> TRUE, status |-> "processing", shippedAt |-> NoDate, deliveredAt |-> NoDate]

---------------------------------------------------------------------------
(* Request slots *)

IdleReq ==
  [op |-> "idle", pc |-> "idle", id |-> 0, doc |-> NoShipment, loaded |-> NoShipment,
   trackingSet |-> FALSE, info |-> NoInfo,
   ord |-> NoOrder, arg |-> "", swallow |-> FALSE, okRes |-> 0, res |-> 0, calls |-> 0,
   at |-> NoDate, failed |-> FALSE, orderFailed |-> FALSE, fetched |-> FALSE,
   cause |-> "", error |-> "",
   saved |-> FALSE,
   orderSaves |-> 0, preShipments |-> <<>>, preOrder |-> NoOrder]

\* a request accepted by the server: its locals, and what the database held
NewReq(op, okRes) ==
  [IdleReq EXCEPT !.op = op, !.okRes = okRes, !.at = now,
                  !.preShipments = shipments, !.preOrder = order]

Respond(q, code) == [q EXCEPT !.pc = "done", !.res = code]

\* mutant: an error reaches the caller wherever it is thrown
Throw_Surfaced(q) == [q EXCEPT !.pc = "done", !.failed = TRUE, !.res = 500,
                               !.error = IF q.cause # "" THEN q.cause ELSE "Error"]

\* an error thrown inside refreshTrackingInfoInternal is logged and swallowed
\* there; anywhere else asyncHandler (or the handler's own catch) turns it into
\* an error response that carries error.message
Throw(q) == [q EXCEPT !.pc = "done", !.failed = TRUE,
                      !.res = IF q.swallow THEN q.okRes ELSE 500,
                      !.error = IF q.swallow THEN ""
                                ELSE IF q.cause # "" THEN q.cause ELSE "Error"]

\* why getTracking rejects: the response holds no shipment for the tracking
\* number (parseResponse throws), or the carrier could not be reached; both are
\* plain Error objects told apart by their message only
FetchFailures == {"no shipment", "carrier unavailable"}

Accepting == ops < MaxOps

TypeOK ==
  /\ now \in 0..(MaxTime + 3)
  /\ ops \in 0..MaxOps
  /\ order.status \in {"", "processing", "shipped", "delivered"}
  /\ \A i \in 1..Len(shipments) : shipments[i].status \in CanonicalStatuses

\* the outcomes of a call on the Order collaborator: TRUE it answers, FALSE it raises
OrderOutcomes == IF orderFaults THEN BOOLEAN ELSE {TRUE}

\* no call made on the service yet
NoCall ==
  [fn |-> "", carrier |-> "", tracker |-> "", native |-> "", threw |-> FALSE,
   result |-> NoInfo, again |-> NoInfo]

InitData ==
  /\ svc = NoCall
  /\ now = 0
  /\ shipments = <<>>
  /\ order \in {NewOrder, NoOrder}
  /\ req = [r \in Slots |-> IdleReq]
  /\ ops = 0

\* the Order collaborator answers every call
Init == InitData /\ orderFaults = FALSE

\* the Order collaborator may raise on any call
InitFaulty == InitData /\ orderFaults = TRUE

\* the positions at which a handler waits for tracker.getTracking
AwaitingCarrier == {"getTracking", "getTrackingC", "addGetTrackingC", "getTrackingB"}

\* The clock advances by whole granules.  A database round trip is shorter than
\* a granule, so the clock moves only between requests or while a request waits
\* for the carrier.
Tick ==
  /\ \A r \in Slots : req[r].pc \in {"idle", "done"} \cup AwaitingCarrier
  /\ \E d \in TickHours : now + d <= MaxTime /\ now' = now + d
  /\ UNCHANGED <<shipments, order, req, ops, orderFaults, svc>>

Finish(r) ==
  /\ req[r].pc = "done"
  /\ req' = [req EXCEPT ![r] = IdleReq]
  /\ UNCHANGED <<now, shipments, order, ops, orderFaults, svc>>


---------------------------------------------------------------------------
(* Calls on services/shippingService.js *)

\* the adapters that answer from generateMockResponse when called directly
MockedCarriers == {"dhl", "17track", "UnknownCarrierXYZ"}

\* createShippingTracker(carrier)
S_createShippingTracker ==
  /\ svc = NoCall
  /\ \E carrier \in ServiceCarriers :
       svc' = [NoCall EXCEPT !.fn = "createShippingTracker", !.carrier = carrier,
                             !.tracker = createShippingTracker(carrier)]
  /\ UNCHANGED <<now, shipments, order, req, ops, orderFaults>>

\* createShippingTracker(carrier).getTracking(trackingNumber)
S_getTracking ==
  /\ svc = NoCall
  /\ \E carrier \in MockedCarriers :
       LET tracker == createShippingTracker(carrier) IN
       \E result \in MockResponses(tracker, now) :
         svc' = [NoCall EXCEPT !.fn = "getTracking", !.carrier = carrier,
                               !.tracker = tracker, !.result = result]
  /\ UNCHANGED <<now, shipments, order, req, ops, orderFaults>>

\* the same call once more, for the same carrier and tracking number
S_getTrackingAgain ==
  /\ svc.fn = "getTracking"
  /\ svc.again = NoInfo
  /\ \E result \in MockResponses(svc.tracker, now) :
       svc' = [svc EXCEPT !.again = result]
  /\ UNCHANGED <<now, shipments, order, req, ops, orderFaults>>

\* new DHLTracker().parseResponse(data, trackingNumber): data.shipments[0]
\* missing makes it throw
S_parseResponse ==
  /\ svc = NoCall
  /\ \E hasShipment \in BOOLEAN, status \in DHLStatuses, events \in NativeEvents,
        estimate \in {NoDate, now + DayHours} :
       svc' = [NoCall EXCEPT
                 !.fn = "parseResponse", !.carrier = "dhl", !.tracker = "DHLTracker",
                 !.native = status,
                 !.threw = ~hasShipment,
                 !.result = IF hasShipment THEN DHLparseResponse(status, events, estimate)
                            ELSE NoInfo]
  /\ UNCHANGED <<now, shipments, order, req, ops, orderFaults>>

\* tracker.mapStatusCode(statusCode) on an adapter that defines it
S_mapStatusCode ==
  /\ svc = NoCall
  /\ \E tracker \in Adapters, statusCode \in NativeStatusCodes :
       svc' = [NoCall EXCEPT
                 !.fn = "mapStatusCode", !.tracker = tracker, !.native = statusCode,
                 !.result = [NoInfo EXCEPT !.status = mapStatusCode(tracker, statusCode)]]
  /\ UNCHANGED <<now, shipments, order, req, ops, orderFaults>>

\* one call on the service, and for getTracking the same call again
NextService ==
  \/ S_createShippingTracker
  \/ S_getTracking
  \/ S_getTrackingAgain
  \/ S_parseResponse
  \/ S_mapStatusCode

SpecService == Init /\ [][NextService]_vars

---------------------------------------------------------------------------
(* Controller A: backend/src/controllers/shippingController.js *)

\* mutant: a shipment exactly six hours old counts as stale
IsStale_Inclusive(lastUpdated, t) == lastUpdated <= t - SixHours

\* shipping.lastUpdated < new Date(Date.now() - 6 * 60 * 60 * 1000)
IsStale(lastUpdated, t) == lastUpdated < t - SixHours

\* lines 80-97: take over the fetched status and events, then compare the
\* fetched status with the LAST statusHistory entry and push when they differ
ApplyTrackingInfo(doc, info, t) ==
  LET d == [doc EXCEPT !.status = info.status,
                       !.trackingHistory = info.trackingHistory,
                       !.lastUpdated = t]
      lastStatus == IF Len(d.statusHistory) > 0
                    THEN d.statusHistory[Len(d.statusHistory)].status
                    ELSE "null"
  IN IF lastStatus # info.status
     THEN [d EXCEPT !.statusHistory =
             Append(d.statusHistory, [status |-> info.status, note |-> "auto"])]
     ELSE d

\* mutant: the delivered block without its deliveredDate guard
FirstDelivery_Unguarded(doc, status) == status = "delivered"

\* trackingInfo.status === 'delivered' && !shipping.deliveredDate
FirstDelivery(doc, status) == status = "delivered" /\ doc.deliveredDate = NoDate

\* lines 112-115: the estimate is taken over only when the fetch carries one
WithEstimate(doc, info) ==
  IF info.estimatedDeliveryDate # NoDate
  THEN [doc EXCEPT !.estimatedDeliveryDate = info.estimatedDeliveryDate]
  ELSE doc

\* mutant: the delivered block leaves the order alone
OrderNeedsDelivered_Never(ord) == FALSE

\* order && order.status !== 'delivered'
OrderNeedsDelivered(ord) == ord.exists /\ ord.status # "delivered"

\* status && status !== shipping.status, then the push and the delivered block
\* of updateShipping (lines 202-212) and addTrackingEvent (lines 258-268)
\* mutant: the manual status change records the status the shipment had
ApplyManualStatus_PushesOld(doc, status, note, t) ==
  LET d == [doc EXCEPT !.status = status,
                       !.statusHistory =
                          Append(doc.statusHistory, [status |-> doc.status, note |-> note])]
  IN IF FirstDelivery(d, status) THEN [d EXCEPT !.deliveredDate = t] ELSE d

ApplyManualStatus(doc, status, note, t) ==
  LET d == [doc EXCEPT !.status = status,
                       !.statusHistory =
                          Append(doc.statusHistory, [status |-> status, note |-> note])]
  IN IF FirstDelivery(d, status) THEN [d EXCEPT !.deliveredDate = t] ELSE d

\* GET /api/shipping/track/:trackingNumber, up to the first await of the refresh
A_getTrackingInfo(r) ==
  /\ Accepting
  /\ req[r].pc = "idle"
  /\ LET q == NewReq("getTrackingInfo", 200) IN
     IF Len(shipments) = 0
     THEN req' = [req EXCEPT ![r] = Respond(q, 404)]
     ELSE LET shipping == shipments[1] IN
          IF IsStale(shipping.lastUpdated, now)
          THEN req' = [req EXCEPT ![r] =
                 [q EXCEPT !.id = 1, !.doc = shipping, !.loaded = shipping,
                           !.swallow = TRUE, !.pc = "getTracking"]]
          ELSE req' = [req EXCEPT ![r] =
                 Respond([q EXCEPT !.id = 1, !.doc = shipping, !.loaded = shipping], 200)]
  /\ ops' = ops + 1
  /\ UNCHANGED <<now, shipments, order, orderFaults, svc>>

\* mutant: the manual refresh fetches only when the shipment is stale
A_refreshTrackingInfo_IfStale(r) ==
  /\ Accepting
  /\ req[r].pc = "idle"
  /\ \E id \in 0..Len(shipments) :
       LET q == [NewReq("refreshTrackingInfo", 200) EXCEPT !.id = id] IN
       IF id = 0
       THEN req' = [req EXCEPT ![r] = Respond(q, 404)]
       ELSE IF IsStale(shipments[id].lastUpdated, now)
       THEN req' = [req EXCEPT ![r] =
              [q EXCEPT !.doc = shipments[id], !.loaded = shipments[id],
                        !.swallow = TRUE, !.pc = "getTracking"]]
       ELSE req' = [req EXCEPT ![r] =
              Respond([q EXCEPT !.doc = shipments[id], !.loaded = shipments[id]], 200)]
  /\ ops' = ops + 1
  /\ UNCHANGED <<now, shipments, order, orderFaults, svc>>

\* PUT /api/shipping/:shippingId/refresh, up to the first await of the refresh
A_refreshTrackingInfo(r) ==
  /\ Accepting
  /\ req[r].pc = "idle"
  /\ \E id \in 0..Len(shipments) :
       LET q == [NewReq("refreshTrackingInfo", 200) EXCEPT !.id = id] IN
       IF id = 0
       THEN req' = [req EXCEPT ![r] = Respond(q, 404)]
       ELSE req' = [req EXCEPT ![r] =
              [q EXCEPT !.doc = shipments[id], !.loaded = shipments[id],
                        !.swallow = TRUE, !.pc = "getTracking"]]
  /\ ops' = ops + 1
  /\ UNCHANGED <<now, shipments, order, orderFaults, svc>>

\* refreshTrackingInfoInternal, lines 77-101: getTracking resolves or throws;
\* on a result the document is updated in memory up to the next await
A_GetTracking(r) ==
  /\ req[r].pc = "getTracking"
  /\ LET q == [req[r] EXCEPT !.calls = @ + 1] IN
     \/ \E cause \in FetchFailures :
          req' = [req EXCEPT ![r] = Throw([q EXCEPT !.cause = cause])]
     \/ \E info \in TrackingResults(q.doc.carrier, now) :
          LET d == ApplyTrackingInfo(q.doc, info, now) IN
          req' = [req EXCEPT ![r] =
            IF FirstDelivery(d, info.status)
            THEN [q EXCEPT !.info = info, !.fetched = TRUE, !.trackingSet = TRUE,
                           !.doc = [d EXCEPT !.deliveredDate = now],
                           !.pc = "findOrder"]
            ELSE [q EXCEPT !.info = info, !.fetched = TRUE, !.trackingSet = TRUE,
                           !.doc = WithEstimate(d, info), !.pc = "save"]]
  /\ UNCHANGED <<now, shipments, order, ops, orderFaults, svc>>

\* Order.findById(shipping.order) of the delivered block, and the block's
\* assignments up to order.save()
A_FindOrder(r) ==
  /\ req[r].pc = "findOrder"
  /\ LET q == req[r] IN
     \E ok \in OrderOutcomes :
       req' = [req EXCEPT ![r] =
         IF ~ok THEN Throw([q EXCEPT !.orderFailed = TRUE])
         ELSE IF OrderNeedsDelivered(order)
         THEN [q EXCEPT !.ord = [order EXCEPT !.status = "delivered", !.deliveredAt = now],
                        !.pc = "saveOrder"]
         ELSE [q EXCEPT !.ord = order, !.doc = WithEstimate(q.doc, q.info), !.pc = "save"]]
  /\ UNCHANGED <<now, shipments, order, ops, orderFaults, svc>>

\* order.save() of the delivered block: writes the fields the handler assigned
A_SaveOrder(r) ==
  /\ req[r].pc = "saveOrder"
  /\ LET q == req[r] IN
     \E ok \in OrderOutcomes :
       IF ~ok
       THEN /\ req' = [req EXCEPT ![r] = Throw([q EXCEPT !.orderFailed = TRUE])]
            /\ UNCHANGED order
       ELSE /\ order' = [order EXCEPT !.status = q.ord.status,
                                      !.deliveredAt = q.ord.deliveredAt]
            /\ req' = [req EXCEPT ![r] =
                 [q EXCEPT !.orderSaves = @ + 1,
                           !.doc = WithEstimate(q.doc, q.info), !.pc = "save"]]
  /\ UNCHANGED <<now, shipments, ops, orderFaults, svc>>

\* shipping.save(): validation, the pre-save hook, the write of the document
A_Save(r) ==
  /\ req[r].pc = "save"
  /\ LET q == req[r] IN
     IF Validates(q.doc) /\ ~VersionConflict(shipments[q.id], q.loaded, q.trackingSet)
     THEN /\ shipments' = [shipments EXCEPT ![q.id] =
                 SavedDoc(@, q.loaded, q.doc, q.trackingSet, now)]
          /\ req' = [req EXCEPT ![r] =
               Respond([q EXCEPT !.saved = TRUE,
                                 !.doc = [PreSave(q.doc, now) EXCEPT !.version =
                                   SavedDoc(shipments[q.id], q.loaded, q.doc,
                                            q.trackingSet, now).version]],
                       q.okRes)]
     ELSE /\ req' = [req EXCEPT ![r] = Throw(q)]
          /\ UNCHANGED shipments
  /\ UNCHANGED <<now, order, ops, orderFaults, svc>>

\* POST /api/shipping: Order.findById(orderId)
A_addShipping(r) ==
  /\ Accepting
  /\ req[r].pc = "idle"
  /\ \E carrier \in CarrierCodes, ok \in OrderOutcomes :
       LET q == [NewReq("addShipping", 201) EXCEPT !.doc = [NoShipment EXCEPT !.carrier = carrier]] IN
       req' = [req EXCEPT ![r] =
         IF ~ok THEN Throw(q)
         ELSE IF ~order.exists THEN Respond(q, 404)
         ELSE [q EXCEPT !.ord = order, !.pc = "findExisting"]]
  /\ ops' = ops + 1
  /\ UNCHANGED <<now, shipments, order, orderFaults, svc>>

\* mutant: the lookup for an existing shipment finds nothing
ExistingShipping_Never(coll) == FALSE

\* existingShipping: what Shipping.findOne({ order: orderId }) finds
ExistingShipping(coll) == Len(coll) > 0

\* Shipping.findOne({ order: orderId }): a second shipment is refused
A_AddFindExisting(r) ==
  /\ req[r].pc = "findExisting"
  /\ req' = [req EXCEPT ![r] =
       IF ExistingShipping(shipments) THEN Respond(req[r], 400)
       ELSE [req[r] EXCEPT !.pc = "create"]]
  /\ UNCHANGED <<now, shipments, order, ops, orderFaults, svc>>

\* the document Shipping.create stores (lines 149-162, schema defaults)
CreatedShipping(carrier, t) ==
  [NoShipment EXCEPT !.carrier = carrier, !.status = "pending",
                     !.statusHistory = <<[status |-> "pending", note |-> "created"]>>,
                     !.lastUpdated = t]

\* index({ order: 1 }, { unique: true }): an insert for an order that has a
\* shipment is refused with a duplicate-key error
UniqueOrderIndex(coll) == Len(coll) = 0

\* Shipping.create(...), then order.status = 'shipped' up to order.save()
A_AddCreate(r) ==
  /\ req[r].pc = "create"
  /\ LET q == req[r] IN
     IF UniqueOrderIndex(shipments)
     THEN /\ shipments' = Append(shipments, CreatedShipping(q.doc.carrier, now))
          /\ req' = [req EXCEPT ![r] =
               [q EXCEPT !.id = Len(shipments) + 1,
                         !.doc = CreatedShipping(q.doc.carrier, now),
                         !.loaded = CreatedShipping(q.doc.carrier, now),
                         !.saved = TRUE,
                         !.ord = [q.ord EXCEPT !.status = "shipped", !.shippedAt = now],
                         !.pc = "saveShipped"]]
     ELSE /\ req' = [req EXCEPT ![r] = Throw(q)]
          /\ UNCHANGED shipments
  /\ UNCHANGED <<now, order, ops, orderFaults, svc>>

\* order.save() of addShipping, then refreshTrackingInfoInternal(shipping)
A_AddSaveOrder(r) ==
  /\ req[r].pc = "saveShipped"
  /\ LET q == req[r] IN
     \E ok \in OrderOutcomes :
       IF ~ok
       THEN /\ req' = [req EXCEPT ![r] = Throw(q)]
            /\ UNCHANGED order
       ELSE /\ order' = [order EXCEPT !.status = q.ord.status, !.shippedAt = q.ord.shippedAt]
            /\ req' = [req EXCEPT ![r] = [q EXCEPT !.swallow = TRUE, !.pc = "getTracking"]]
  /\ UNCHANGED <<now, shipments, ops, orderFaults, svc>>

\* PUT /api/shipping/:shippingId
A_updateShipping(r) ==
  /\ Accepting
  /\ req[r].pc = "idle"
  /\ \E id \in 0..Len(shipments), status \in RequestStatuses :
       LET q == [NewReq("updateShipping", 200) EXCEPT !.id = id, !.arg = status] IN
       IF id = 0
       THEN req' = [req EXCEPT ![r] = Respond(q, 404)]
       ELSE LET shipping == shipments[id] IN
            IF status # "" /\ status # shipping.status
            THEN LET d == ApplyManualStatus(shipping, status, "admin", now) IN
                 req' = [req EXCEPT ![r] =
                   [q EXCEPT !.doc = d, !.loaded = shipping,
                             !.pc = IF FirstDelivery(shipping, status)
                                    THEN "findOrder" ELSE "save"]]
            ELSE req' = [req EXCEPT ![r] =
                   [q EXCEPT !.doc = shipping, !.loaded = shipping, !.pc = "save"]]
  /\ ops' = ops + 1
  /\ UNCHANGED <<now, shipments, order, orderFaults, svc>>

\* POST /api/shipping/:shippingId/events
A_addTrackingEvent(r) ==
  /\ Accepting
  /\ req[r].pc = "idle"
  /\ \E id \in 0..Len(shipments), statusCode \in RequestStatusCodes :
       LET q == [NewReq("addTrackingEvent", 200) EXCEPT
                  !.id = id, !.arg = statusCode,
                  !.loaded = IF id = 0 THEN NoShipment ELSE shipments[id]] IN
       IF id = 0
       THEN req' = [req EXCEPT ![r] = Respond(q, 404)]
       ELSE LET shipping ==
                  [shipments[id] EXCEPT !.trackingHistory =
                     Append(@, [timestamp |-> now,
                                statusCode |-> IF statusCode # "" THEN statusCode
                                               ELSE "unknown"])]
                tracker == createShippingTracker(shipping.carrier)
                status == mapStatusCode(tracker, statusCode)
            IN
            IF statusCode = ""
            THEN req' = [req EXCEPT ![r] = [q EXCEPT !.doc = shipping, !.pc = "save"]]
            ELSE IF ~hasMapStatusCode(tracker)
            THEN req' = [req EXCEPT ![r] = Throw([q EXCEPT !.doc = shipping])]
            ELSE IF status # shipping.status
            THEN req' = [req EXCEPT ![r] =
                   [q EXCEPT !.doc = ApplyManualStatus(shipping, status, "event", now),
                             !.pc = IF FirstDelivery(shipping, status)
                                    THEN "findOrder" ELSE "save"]]
            ELSE req' = [req EXCEPT ![r] = [q EXCEPT !.doc = shipping, !.pc = "save"]]
  /\ ops' = ops + 1
  /\ UNCHANGED <<now, shipments, order, orderFaults, svc>>

\* the read path and the manual refresh, with refreshTrackingInfoInternal
RefreshA(r) ==
  \/ A_getTrackingInfo(r)
  \/ A_refreshTrackingInfo(r)
  \/ A_GetTracking(r)
  \/ A_FindOrder(r)
  \/ A_SaveOrder(r)
  \/ A_Save(r)
  \/ Finish(r)

CreateA(r) ==
  \/ A_addShipping(r)
  \/ A_AddFindExisting(r)
  \/ A_AddCreate(r)
  \/ A_AddSaveOrder(r)

ManualA(r) ==
  \/ A_updateShipping(r)
  \/ A_addTrackingEvent(r)

\* controller A, one request at a time
Next == Tick \/ \E r \in SeqSlots : (RefreshA(r) \/ CreateA(r) \/ ManualA(r))

Spec == Init /\ [][Next]_vars

\* controller A, creation and refreshes of two requests interleaving at their awaits
NextConc == Tick \/ \E r \in Slots : (RefreshA(r) \/ CreateA(r))

SpecConc == Init /\ [][NextConc]_vars

\* controller A, one request at a time, the Order collaborator failing at will
SpecFaulty == InitFaulty /\ [][Next]_vars

---------------------------------------------------------------------------
(* Controller C: unnamed/part_000 lines 414-909, on models/Shipping.js *)

\* lines 514-518: the fetched status, events and estimate replace the stored
\* ones; statusHistory is not touched
ApplyTrackingInfoC(doc, info, t) ==
  [doc EXCEPT !.status = info.status,
              !.trackingHistory = info.trackingHistory,
              !.estimatedDeliveryDate = info.estimatedDeliveryDate,
              !.lastUpdated = t]

\* lines 666-671 and 767-772: the status the shipment HAD is pushed, then the
\* new one assigned
ApplyManualStatusC(doc, status) ==
  [doc EXCEPT !.statusHistory = Append(@, [status |-> doc.status, note |-> "changed"]),
              !.status = status]

\* trackingInfo.estimatedDeliveryDate || newShipping.estimatedDeliveryDate
OrElse(a, b) == IF a # NoDate THEN a ELSE b

\* exports.refreshTrackingInfo, PUT /api/shipping/:shippingId/refresh, up to getTracking
C_refreshTrackingInfo(r) ==
  /\ Accepting
  /\ req[r].pc = "idle"
  /\ \E id \in 0..Len(shipments) :
       LET q == [NewReq("refreshTrackingInfoC", 200) EXCEPT !.id = id] IN
       IF id = 0
       THEN req' = [req EXCEPT ![r] = Respond(q, 404)]
       ELSE req' = [req EXCEPT ![r] =
              [q EXCEPT !.doc = shipments[id], !.loaded = shipments[id],
                        !.pc = "getTrackingC"]]
  /\ ops' = ops + 1
  /\ UNCHANGED <<now, shipments, order, orderFaults, svc>>

\* lines 511-523: getTracking resolves or throws (caught at 537: 500)
C_GetTracking(r) ==
  /\ req[r].pc = "getTrackingC"
  /\ LET q == [req[r] EXCEPT !.calls = @ + 1] IN
     \/ \E cause \in FetchFailures :
          req' = [req EXCEPT ![r] = Throw([q EXCEPT !.cause = cause])]
     \/ \E info \in TrackingResults(q.doc.carrier, now) :
          LET d == ApplyTrackingInfoC(q.doc, info, now) IN
          req' = [req EXCEPT ![r] =
            IF FirstDelivery(d, info.status)
            THEN [q EXCEPT !.info = info, !.fetched = TRUE, !.trackingSet = TRUE,
                           !.doc = [d EXCEPT !.deliveredDate = now],
                           !.pc = "findOrderC"]
            ELSE [q EXCEPT !.info = info, !.fetched = TRUE, !.trackingSet = TRUE,
                           !.doc = d, !.pc = "save"]]
  /\ UNCHANGED <<now, shipments, order, ops, orderFaults, svc>>

\* Order.findById(shipping.order) at 526, 679, 780: if (order) order.status = 'delivered'
C_FindOrder(r) ==
  /\ req[r].pc = "findOrderC"
  /\ LET q == req[r] IN
     \E ok \in OrderOutcomes :
       req' = [req EXCEPT ![r] =
         IF ~ok THEN Throw([q EXCEPT !.orderFailed = TRUE])
         ELSE IF order.exists
         THEN [q EXCEPT !.ord = [order EXCEPT !.status = "delivered"], !.pc = "saveOrderC"]
         ELSE [q EXCEPT !.ord = order, !.pc = "save"]]
  /\ UNCHANGED <<now, shipments, order, ops, orderFaults, svc>>

\* order.save() at 529, 682, 783
C_SaveOrder(r) ==
  /\ req[r].pc = "saveOrderC"
  /\ LET q == req[r] IN
     \E ok \in OrderOutcomes :
       IF ~ok
       THEN /\ req' = [req EXCEPT ![r] = Throw([q EXCEPT !.orderFailed = TRUE])]
            /\ UNCHANGED order
       ELSE /\ order' = [order EXCEPT !.status = q.ord.status]
            /\ req' = [req EXCEPT ![r] = [q EXCEPT !.orderSaves = @ + 1, !.pc = "save"]]
  /\ UNCHANGED <<now, shipments, ops, orderFaults, svc>>

\* the status the body of exports.addShipping may carry ("" : none given, the
\* destructuring default 'pending' applies)
CreateStatuses == {"", "in_transit"}

\* exports.addShipping, POST /api/shipping: Order.findById(orderId)
C_addShipping(r) ==
  /\ Accepting
  /\ req[r].pc = "idle"
  /\ \E carrier \in CarrierCodes, status \in CreateStatuses, ok \in OrderOutcomes :
       LET q == [NewReq("addShippingC", 201) EXCEPT
                   !.arg = status,
                   !.doc = [NoShipment EXCEPT
                              !.carrier = carrier,
                              !.status = IF status = "" THEN "pending" ELSE status]] IN
       req' = [req EXCEPT ![r] =
         IF ~ok THEN Throw(q)
         ELSE IF ~order.exists THEN Respond(q, 404)
         ELSE [q EXCEPT !.ord = order, !.pc = "findExistingC"]]
  /\ ops' = ops + 1
  /\ UNCHANGED <<now, shipments, order, orderFaults, svc>>

\* Shipping.findOne({ order: orderId }) at 580, then new Shipping({...})
C_AddFindExisting(r) ==
  /\ req[r].pc = "findExistingC"
  /\ req' = [req EXCEPT ![r] =
       IF ExistingShipping(shipments) THEN Respond(req[r], 400)
       ELSE [req[r] EXCEPT !.pc = "addGetTrackingC"]]
  /\ UNCHANGED <<now, shipments, order, ops, orderFaults, svc>>

\* lines 599-610: the creation-time fetch; its failure keeps the defaults
C_AddGetTracking(r) ==
  /\ req[r].pc = "addGetTrackingC"
  /\ LET q == [req[r] EXCEPT !.calls = @ + 1, !.pc = "addSaveC"] IN
     \/ \E cause \in FetchFailures : req' = [req EXCEPT ![r] = [q EXCEPT !.cause = cause]]
     \/ \E info \in TrackingResults(q.doc.carrier, now) :
          req' = [req EXCEPT ![r] =
            [q EXCEPT !.info = info, !.fetched = TRUE,
                      !.doc = [q.doc EXCEPT
                         !.status = info.status,
                         !.trackingHistory = info.trackingHistory,
                         !.estimatedDeliveryDate =
                            OrElse(info.estimatedDeliveryDate, @)]]]
  /\ UNCHANGED <<now, shipments, order, ops, orderFaults, svc>>

\* newShipping.save() at 613, then order.status = 'shipped'
C_AddSave(r) ==
  /\ req[r].pc = "addSaveC"
  /\ LET q == req[r] IN
     IF Validates(q.doc) /\ UniqueOrderIndex(shipments)
     THEN /\ shipments' = Append(shipments, PreSave(q.doc, now))
          /\ req' = [req EXCEPT ![r] =
               [q EXCEPT !.id = Len(shipments) + 1,
                         !.doc = PreSave(q.doc, now),
                         !.loaded = PreSave(q.doc, now),
                         !.saved = TRUE,
                         !.ord = [q.ord EXCEPT !.status = "shipped"],
                         !.pc = "addSaveOrderC"]]
     ELSE /\ req' = [req EXCEPT ![r] = Throw(q)]
          /\ UNCHANGED shipments
  /\ UNCHANGED <<now, order, ops, orderFaults, svc>>

\* order.save() at 617
C_AddSaveOrder(r) ==
  /\ req[r].pc = "addSaveOrderC"
  /\ LET q == req[r] IN
     \E ok \in OrderOutcomes :
       IF ~ok
       THEN /\ req' = [req EXCEPT ![r] = Throw(q)]
            /\ UNCHANGED order
       ELSE /\ order' = [order EXCEPT !.status = q.ord.status]
            /\ req' = [req EXCEPT ![r] = Respond(q, q.okRes)]
  /\ UNCHANGED <<now, shipments, ops, orderFaults, svc>>

\* the carrier a request body of exports.updateShipping may carry ("" : none given)
RequestCarriers == {""} \cup CarrierCodes

\* lines 657-658: if (carrier) shipping.carrier = carrier
AssignFieldsC(doc, carrier) ==
  [doc EXCEPT !.carrier = IF carrier # "" THEN carrier ELSE @]

\* the condition of lines 692-693, read on the document as it is by then
\* (carrier || shipping.carrier is the carrier handed to createShippingTracker)
RefetchNeededC(doc, carrier) == carrier # "" /\ carrier # doc.carrier

\* what tracker.getTracking of line 696 can give when the re-fetch runs:
\* a result, or a rejection (NoInfo) that the catch of 710 swallows
RefetchResultsC(doc, carrier, t) ==
  IF RefetchNeededC(doc, carrier)
  THEN TrackingResults(carrier, t) \cup {NoInfo}
  ELSE {NoInfo}

\* lines 698-709: the fetched events replace trackingHistory, the fetched
\* status is taken when the request gave none, the fetched estimate when it has one
RefetchC(doc, status, info) ==
  IF info = NoInfo THEN doc
  ELSE [doc EXCEPT !.trackingHistory = info.trackingHistory,
                   !.status = IF status = "" THEN info.status ELSE @,
                   !.estimatedDeliveryDate = OrElse(info.estimatedDeliveryDate, @)]

\* exports.updateShipping, PUT /api/shipping/:shippingId, up to its first await
\* after findById.  The re-fetch of 691-714 depends on the request and on the
\* document's own carrier only, so it is taken together with the assignments.
C_updateShipping(r) ==
  /\ Accepting
  /\ req[r].pc = "idle"
  /\ \E id \in 0..Len(shipments), carrier \in RequestCarriers,
        status \in RequestStatuses, deliveredDate \in RequestDates :
       LET q0 == [NewReq("updateShippingC", 200) EXCEPT !.id = id, !.arg = status] IN
       IF id = 0
       THEN req' = [req EXCEPT ![r] = Respond(q0, 404)]
       ELSE LET shipping == AssignFieldsC(shipments[id], carrier) IN
            \E info \in RefetchResultsC(shipping, carrier, now) :
              LET q == [q0 EXCEPT !.loaded = shipments[id],
                                  !.calls = IF RefetchNeededC(shipping, carrier) THEN 1 ELSE 0,
                                  !.fetched = info # NoInfo,
                                  !.trackingSet = info # NoInfo,
                                  !.info = info]
              IN
              IF status # "" /\ status # shipping.status
              THEN LET d == ApplyManualStatusC(shipping, status) IN
                   req' = [req EXCEPT ![r] =
                     IF FirstDelivery(d, status)
                     THEN [q EXCEPT !.doc = RefetchC([d EXCEPT !.deliveredDate =
                                                        OrElse(deliveredDate, now)],
                                                     status, info),
                                    !.pc = "findOrderC"]
                     ELSE [q EXCEPT !.doc = RefetchC(d, status, info), !.pc = "save"]]
              ELSE IF deliveredDate # NoDate /\ status = "delivered"
              THEN req' = [req EXCEPT ![r] =
                     [q EXCEPT !.doc = RefetchC([shipping EXCEPT !.deliveredDate = deliveredDate],
                                                status, info),
                               !.pc = "save"]]
              ELSE req' = [req EXCEPT ![r] =
                     [q EXCEPT !.doc = RefetchC(shipping, status, info), !.pc = "save"]]
  /\ ops' = ops + 1
  /\ UNCHANGED <<now, shipments, order, orderFaults, svc>>

\* exports.addTrackingEvent, POST /api/shipping/:shippingId/events
C_addTrackingEvent(r) ==
  /\ Accepting
  /\ req[r].pc = "idle"
  /\ \E id \in 0..Len(shipments), status \in RequestStatuses, description \in BOOLEAN :
       LET q == [NewReq("addTrackingEventC", 200) EXCEPT !.id = id, !.arg = status] IN
       IF ~description
       THEN req' = [req EXCEPT ![r] = Respond(q, 400)]
       ELSE IF id = 0
       THEN req' = [req EXCEPT ![r] = Respond(q, 404)]
       ELSE LET newEvent == [timestamp |-> now,
                             statusCode |-> IF status # "" THEN status
                                            ELSE shipments[id].status]
                shipping == [shipments[id] EXCEPT !.trackingHistory = Append(@, newEvent)]
            IN
            IF status # "" /\ status # shipping.status
            THEN LET d == ApplyManualStatusC(shipping, status) IN
                 req' = [req EXCEPT ![r] =
                   IF FirstDelivery(d, status)
                   THEN [q EXCEPT !.loaded = shipments[id],
                                  !.doc = [d EXCEPT !.deliveredDate = now],
                                  !.pc = "findOrderC"]
                   ELSE [q EXCEPT !.loaded = shipments[id], !.doc = d, !.pc = "save"]]
            ELSE req' = [req EXCEPT ![r] =
                   [q EXCEPT !.loaded = shipments[id], !.doc = shipping, !.pc = "save"]]
  /\ ops' = ops + 1
  /\ UNCHANGED <<now, shipments, order, orderFaults, svc>>

\* the manual refresh of controller C; shipping.save() is that of models/Shipping.js
RefreshC(r) ==
  \/ C_refreshTrackingInfo(r)
  \/ C_GetTracking(r)
  \/ C_FindOrder(r)
  \/ C_SaveOrder(r)
  \/ A_Save(r)
  \/ Finish(r)

CreateC(r) ==
  \/ C_addShipping(r)
  \/ C_AddFindExisting(r)
  \/ C_AddGetTracking(r)
  \/ C_AddSave(r)
  \/ C_AddSaveOrder(r)

ManualC(r) ==
  \/ C_updateShipping(r)
  \/ C_addTrackingEvent(r)

\* controller C, one request at a time
NextC == Tick \/ \E r \in SeqSlots : (RefreshC(r) \/ CreateC(r) \/ ManualC(r))

SpecC == Init /\ [][NextC]_vars

\* creation and refreshes of A and of C on the one Shipping collection, one
\* request at a time
NextAC ==
  Tick \/ \E r \in SeqSlots : (RefreshA(r) \/ CreateA(r) \/ RefreshC(r) \/ CreateC(r))

SpecAC == Init /\ [][NextAC]_vars

---------------------------------------------------------------------------
(* Controller B: unnamed/part_000 lines 1-413, on unnamed/part_001 *)

\* schema validation of part_001: the carrier and status enums
ValidatesB(doc) ==
  /\ doc.carrier \in CarrierEnumB
  /\ doc.status \in CanonicalStatuses

\* Shipping.findOne({ orderId }): the first document of the order, 0 for none;
\* every document carries an orderId, so undefined matches none
FindByOrderId(coll, orderId) ==
  IF orderId = "order" /\ Len(coll) > 0 THEN 1 ELSE 0

\* lines 86-89
ApplyTrackingInfoB(doc, info, t) ==
  [doc EXCEPT !.status = info.status,
              !.trackingHistory = info.trackingHistory,
              !.estimatedDeliveryDate = info.estimatedDeliveryDate,
              !.lastUpdated = t]

\* refreshShippingTracking, up to getTracking
B_refreshShippingTracking(r) ==
  /\ Accepting
  /\ req[r].pc = "idle"
  /\ \E orderId \in RouteOrderIds :
       LET id == FindByOrderId(shipments, orderId)
           q == [NewReq("refreshShippingTracking", 200) EXCEPT !.id = id]
       IN
       IF id = 0
       THEN req' = [req EXCEPT ![r] = Respond(q, 404)]
       ELSE req' = [req EXCEPT ![r] =
              [q EXCEPT !.doc = shipments[id], !.loaded = shipments[id],
                        !.pc = "getTrackingB"]]
  /\ ops' = ops + 1
  /\ UNCHANGED <<now, shipments, order, orderFaults, svc>>

\* lines 83-95: getTracking resolves or throws (caught at 113: 500); the
\* delivered block runs on every delivered result
B_GetTracking(r) ==
  /\ req[r].pc = "getTrackingB"
  /\ LET q == [req[r] EXCEPT !.calls = @ + 1] IN
     \/ \E cause \in FetchFailures :
          req' = [req EXCEPT ![r] = Throw([q EXCEPT !.cause = cause])]
     \/ \E info \in TrackingResults(q.doc.carrier, now) :
          LET d == ApplyTrackingInfoB(q.doc, info, now) IN
          req' = [req EXCEPT ![r] =
            IF info.status = "delivered"
            THEN [q EXCEPT !.info = info, !.fetched = TRUE, !.trackingSet = TRUE,
                           !.doc = [d EXCEPT !.deliveredDate = now],
                           !.pc = "findOrderB"]
            ELSE [q EXCEPT !.info = info, !.fetched = TRUE, !.trackingSet = TRUE,
                           !.doc = d, !.pc = "saveB"]]
  /\ UNCHANGED <<now, shipments, order, ops, orderFaults, svc>>

\* Order.findById(orderId) at 97 and the assignments up to order.save()
B_FindOrder(r) ==
  /\ req[r].pc = "findOrderB"
  /\ LET q == req[r] IN
     \E ok \in OrderOutcomes :
       req' = [req EXCEPT ![r] =
         IF ~ok THEN Throw([q EXCEPT !.orderFailed = TRUE])
         ELSE IF order.exists
         THEN [q EXCEPT !.ord = [order EXCEPT !.status = "delivered", !.deliveredAt = now],
                        !.pc = "saveOrderB"]
         ELSE [q EXCEPT !.ord = order, !.pc = "saveB"]]
  /\ UNCHANGED <<now, shipments, order, ops, orderFaults, svc>>

\* order.save() at 102
B_SaveOrder(r) ==
  /\ req[r].pc = "saveOrderB"
  /\ LET q == req[r] IN
     \E ok \in OrderOutcomes :
       IF ~ok
       THEN /\ req' = [req EXCEPT ![r] = Throw([q EXCEPT !.orderFailed = TRUE])]
            /\ UNCHANGED order
       ELSE /\ order' = [order EXCEPT !.status = q.ord.status,
                                      !.deliveredAt = q.ord.deliveredAt]
            /\ req' = [req EXCEPT ![r] = [q EXCEPT !.orderSaves = @ + 1, !.pc = "saveB"]]
  /\ UNCHANGED <<now, shipments, ops, orderFaults, svc>>

\* shipping.save() at 106
B_Save(r) ==
  /\ req[r].pc = "saveB"
  /\ LET q == req[r] IN
     IF ValidatesB(q.doc) /\ ~VersionConflict(shipments[q.id], q.loaded, q.trackingSet)
     THEN /\ shipments' = [shipments EXCEPT ![q.id] =
                 SavedDoc(@, q.loaded, q.doc, q.trackingSet, now)]
          /\ req' = [req EXCEPT ![r] =
               Respond([q EXCEPT !.saved = TRUE,
                                 !.doc = [PreSave(q.doc, now) EXCEPT !.version =
                                   SavedDoc(shipments[q.id], q.loaded, q.doc,
                                            q.trackingSet, now).version]],
                       q.okRes)]
     ELSE /\ req' = [req EXCEPT ![r] = Throw(q)]
          /\ UNCHANGED shipments
  /\ UNCHANGED <<now, order, ops, orderFaults, svc>>

\* addShipping of controller B: Order.findById(orderId)
B_addShipping(r) ==
  /\ Accepting
  /\ req[r].pc = "idle"
  /\ \E carrier \in CarrierNamesB, ok \in OrderOutcomes :
       LET q == [NewReq("addShippingB", 201) EXCEPT
                   !.doc = [NoShipment EXCEPT !.carrier = carrier]] IN
       req' = [req EXCEPT ![r] =
         IF ~ok THEN Throw(q)
         ELSE IF ~order.exists THEN Respond(q, 404)
         ELSE [q EXCEPT !.ord = order, !.pc = "findExistingB"]]
  /\ ops' = ops + 1
  /\ UNCHANGED <<now, shipments, order, orderFaults, svc>>

\* Shipping.findOne({ orderId }) at 135
B_AddFindExisting(r) ==
  /\ req[r].pc = "findExistingB"
  /\ req' = [req EXCEPT ![r] =
       IF FindByOrderId(shipments, "order") # 0 THEN Respond(req[r], 400)
       ELSE [req[r] EXCEPT !.pc = "createB"]]
  /\ UNCHANGED <<now, shipments, order, ops, orderFaults, svc>>

\* the document of lines 142-156
CreatedShippingB(carrier, t) ==
  [NoShipment EXCEPT !.carrier = carrier, !.status = "pending",
                     !.trackingHistory = <<[timestamp |-> t, statusCode |-> ""]>>,
                     !.lastUpdated = t]

\* shipping.save() at 159: index({ orderId: 1 }) refuses nothing; then the
\* order's fields up to order.save()
B_AddCreate(r) ==
  /\ req[r].pc = "createB"
  /\ LET q == req[r]
         created == CreatedShippingB(q.doc.carrier, now)
     IN
     IF ValidatesB(created)
     THEN /\ shipments' = Append(shipments, created)
          /\ req' = [req EXCEPT ![r] =
               [q EXCEPT !.id = Len(shipments) + 1, !.doc = created, !.loaded = created,
                         !.saved = TRUE,
                         !.ord = [q.ord EXCEPT !.status = "shipped", !.shippedAt = now],
                         !.pc = "saveShippedB"]]
     ELSE /\ req' = [req EXCEPT ![r] = Throw(q)]
          /\ UNCHANGED shipments
  /\ UNCHANGED <<now, order, ops, orderFaults, svc>>

\* order.save() at 166
B_AddSaveOrder(r) ==
  /\ req[r].pc = "saveShippedB"
  /\ LET q == req[r] IN
     \E ok \in OrderOutcomes :
       IF ~ok
       THEN /\ req' = [req EXCEPT ![r] = Throw(q)]
            /\ UNCHANGED order
       ELSE /\ order' = [order EXCEPT !.status = q.ord.status, !.shippedAt = q.ord.shippedAt]
            /\ req' = [req EXCEPT ![r] = Respond(q, q.okRes)]
  /\ UNCHANGED <<now, shipments, ops, orderFaults, svc>>

HandlersB(r) ==
  \/ B_refreshShippingTracking(r)
  \/ B_GetTracking(r)
  \/ B_FindOrder(r)
  \/ B_SaveOrder(r)
  \/ B_Save(r)
  \/ B_addShipping(r)
  \/ B_AddFindExisting(r)
  \/ B_AddCreate(r)
  \/ B_AddSaveOrder(r)
  \/ Finish(r)

\* controller B, two requests interleaving at their awaits
NextB == Tick \/ \E r \in Slots : HandlersB(r)

SpecB == Init /\ [][NextB]_vars

\* The :id a route hands to updateShipping of controller B.  routes/shipping.js
\* mounts the handler on /orders/:orderId/tracking, so req.params.id is
\* undefined there; the handler's own header names /api/admin/shipping/:id.
RouteIds == {"id", "undefined"}

\* Shipping.findById(id): findById(undefined) looks for _id null and finds none
FindById(coll, id) == IF id = "id" /\ Len(coll) > 0 THEN 1 ELSE 0

\* updateShipping of controller B, lines 183-209: the status is assigned at 198
\* before 202 compares it with the document, so the unshift never runs
B_updateShipping(r) ==
  /\ Accepting
  /\ req[r].pc = "idle"
  /\ \E id \in RouteIds, status \in RequestStatuses :
       LET k == FindById(shipments, id)
           q == [NewReq("updateShippingB", 200) EXCEPT !.id = k, !.arg = status]
       IN
       IF k = 0
       THEN req' = [req EXCEPT ![r] = Respond(q, 404)]
       ELSE req' = [req EXCEPT ![r] =
              [q EXCEPT !.loaded = shipments[k],
                        !.doc = [shipments[k] EXCEPT
                                   !.status = IF status # "" THEN status ELSE @,
                                   !.lastUpdated = now],
                        !.pc = "updSaveB"]]
  /\ ops' = ops + 1
  /\ UNCHANGED <<now, shipments, order, orderFaults, svc>>

\* shipping.save() at 213, then lines 216-217: deliveredDate is assigned to the
\* document in memory after the save, and nothing saves it again
B_UpdSave(r) ==
  /\ req[r].pc = "updSaveB"
  /\ LET q == req[r] IN
     IF ValidatesB(q.doc)
     THEN /\ shipments' = [shipments EXCEPT ![q.id] =
                 SavedDoc(@, q.loaded, q.doc, FALSE, now)]
          /\ req' = [req EXCEPT ![r] =
               IF q.arg = "delivered"
               THEN [q EXCEPT !.saved = TRUE,
                              !.doc = [PreSave(q.doc, now) EXCEPT !.deliveredDate = now],
                              !.pc = "updFindOrderB"]
               ELSE Respond([q EXCEPT !.saved = TRUE, !.doc = PreSave(q.doc, now)], 200)]
     ELSE /\ req' = [req EXCEPT ![r] = Throw(q)]
          /\ UNCHANGED shipments
  /\ UNCHANGED <<now, order, ops, orderFaults, svc>>

\* Order.findById(shipping.orderId) at 220 and the assignments up to order.save()
B_UpdFindOrder(r) ==
  /\ req[r].pc = "updFindOrderB"
  /\ LET q == req[r] IN
     \E ok \in OrderOutcomes :
       req' = [req EXCEPT ![r] =
         IF ~ok THEN Throw([q EXCEPT !.orderFailed = TRUE])
         ELSE IF order.exists
         THEN [q EXCEPT !.ord = [order EXCEPT !.status = "delivered", !.deliveredAt = now],
                        !.pc = "updSaveOrderB"]
         ELSE Respond([q EXCEPT !.ord = order], 200)]
  /\ UNCHANGED <<now, shipments, order, ops, orderFaults, svc>>

\* order.save() at 225, then the response
B_UpdSaveOrder(r) ==
  /\ req[r].pc = "updSaveOrderB"
  /\ LET q == req[r] IN
     \E ok \in OrderOutcomes :
       IF ~ok
       THEN /\ req' = [req EXCEPT ![r] = Throw([q EXCEPT !.orderFailed = TRUE])]
            /\ UNCHANGED order
       ELSE /\ order' = [order EXCEPT !.status = q.ord.status,
                                      !.deliveredAt = q.ord.deliveredAt]
            /\ req' = [req EXCEPT ![r] = Respond([q EXCEPT !.orderSaves = @ + 1], 200)]
  /\ UNCHANGED <<now, shipments, ops, orderFaults, svc>>

UpdateB(r) ==
  \/ B_updateShipping(r)
  \/ B_UpdSave(r)
  \/ B_UpdFindOrder(r)
  \/ B_UpdSaveOrder(r)

\* controller B with its updateShipping, one request at a time
NextBManual == Tick \/ \E r \in SeqSlots : (HandlersB(r) \/ UpdateB(r))

SpecBManual == Init /\ [][NextBManual]_vars

\* every handler of controller A, on a collection that exports.addShipping of
\* part_000 also creates shipments in; one request at a time
NextAOnC ==
  Tick \/ \E r \in SeqSlots : (RefreshA(r) \/ CreateA(r) \/ ManualA(r) \/ CreateC(r))

SpecAOnC == Init /\ [][NextAOnC]_vars

---------------------------------------------------------------------------
(* Properties *)

\* the shipment a request addressed, as the database held it when the request arrived
HadDoc(q) == q.id >= 1 /\ q.id <= Len(q.preShipments)

PreDoc(q) == IF HadDoc(q) THEN q.preShipments[q.id] ELSE NoShipment

\* a finished request that ran refreshTrackingInfoInternal and got a result
RefreshedWith(q, status) ==
  /\ q.pc = "done"
  /\ q.op \in {"getTrackingInfo", "refreshTrackingInfo", "addShipping"}
  /\ q.fetched
  /\ q.info.status = status

\* C1: sequential refreshes that all report delivered: the refresh that finds
\* deliveredDate unset assigns it and saves the order as delivered once; a
\* refresh that finds deliveredDate set changes neither deliveredDate nor the order.
C1_IdempotentDelivery ==
  \A r \in Slots :
    LET q == req[r] IN
    RefreshedWith(q, "delivered") =>
      IF PreDoc(q).deliveredDate = NoDate
      THEN /\ shipments[q.id].deliveredDate # NoDate
           /\ shipments[q.id].deliveredDate >= q.at
           /\ order.status = "delivered"
           /\ q.orderSaves = 1
      ELSE /\ shipments[q.id].deliveredDate = PreDoc(q).deliveredDate
           /\ q.orderSaves = 0
           /\ order = q.preOrder

\* C1 witness: a second delivered report, later on the clock than the first
C1_Witness ==
  \E r \in Slots :
    /\ RefreshedWith(req[r], "delivered")
    /\ PreDoc(req[r]).deliveredDate # NoDate
    /\ PreDoc(req[r]).deliveredDate < req[r].at

\* C2: under interleaved refreshes the order is never saved as delivered when
\* it already is delivered, and a deliveredDate once stored is never replaced.
C2_NoDoubleSideEffect ==
  [][ /\ \A r \in Slots :
           req'[r].orderSaves > req[r].orderSaves => order.status # "delivered"
      /\ \A i \in 1..Len(shipments) :
           shipments[i].deliveredDate # NoDate =>
             shipments'[i].deliveredDate = shipments[i].deliveredDate ]_vars

\* C6: addShipping for an order that has a shipment answers 400 and leaves the
\* collection and the order as they were.
C6_SecondShipmentRejected ==
  \A r \in Slots :
    LET q == req[r] IN
    (q.pc = "done" /\ q.op = "addShipping" /\ Len(q.preShipments) > 0) =>
      /\ q.res = 400
      /\ shipments = q.preShipments
      /\ order = q.preOrder

\* C6 witness: such a request has been answered
C6_Witness ==
  \E r \in Slots :
    /\ req[r].pc = "done" /\ req[r].op = "addShipping"
    /\ Len(req[r].preShipments) = 1
    /\ req[r].res = 400

\* the adapter raised inside a finished manual refresh
ManualRefreshAdapterRaised(q) ==
  /\ q.pc = "done" /\ q.op = "refreshTrackingInfo"
  /\ q.calls = 1 /\ ~q.fetched

\* C8: a manual refresh whose adapter raises answers with an error and leaves
\* the persisted shipment, its statusHistory included, as it was.
C8_ManualRefreshSurfacesError ==
  \A r \in Slots :
    LET q == req[r] IN
    ManualRefreshAdapterRaised(q) =>
      /\ q.res >= 400
      /\ shipments = q.preShipments

\* C9: the read path calls the adapter exactly when the shipment is more than
\* six hours old; otherwise it answers from the database and writes nothing.
C9_ReadRefreshesOnlyStale ==
  \A r \in Slots :
    LET q == req[r]
        called == q.pc = "getTracking" \/ q.calls >= 1
    IN
    (q.op = "getTrackingInfo" /\ HadDoc(q)) =>
      /\ called <=> (q.at - PreDoc(q).lastUpdated > SixHours)
      /\ q.calls <= 1
      /\ ~called => (q.pc = "done" /\ q.res = 200 /\ shipments = q.preShipments
                     /\ order = q.preOrder /\ q.doc = PreDoc(q))

\* C9 witness: a read of a shipment exactly six hours old, answered without a call
C9_Witness ==
  \E r \in Slots :
    /\ req[r].op = "getTrackingInfo" /\ req[r].pc = "done" /\ HadDoc(req[r])
    /\ req[r].at - PreDoc(req[r]).lastUpdated = SixHours
    /\ req[r].calls = 0

\* a finished refresh of a stored shipment that fetched a result and saved it
SuccessfulRefresh(q) ==
  /\ q.pc = "done"
  /\ q.op \in {"getTrackingInfo", "refreshTrackingInfo", "refreshTrackingInfoC"}
  /\ q.fetched /\ q.saved

\* C3: a successful refresh appends exactly one statusHistory entry when the
\* fetched status differs from the status the shipment stored before it, and
\* none when it equals it; the entries that were there stay as they were.
C3_HistoryGrowsPerChange ==
  \A r \in Slots :
    LET q == req[r]
        before == q.loaded.statusHistory
        after == shipments[q.id].statusHistory
    IN
    SuccessfulRefresh(q) =>
      /\ Len(after) = Len(before) + (IF q.info.status # q.loaded.status THEN 1 ELSE 0)
      /\ SubSeq(after, 1, Len(before)) = before

\* C4: a persisted shipment whose status is delivered carries a deliveredDate
\* (the half of C4 that speaks of the current persisted state).
C4_DeliveredHasDate ==
  \A i \in 1..Len(shipments) :
    shipments[i].status = "delivered" => shipments[i].deliveredDate # NoDate

\* C5: a refreshShippingTracking that reports delivered for a shipment that has
\* a deliveredDate keeps that deliveredDate and does not save the order.
C5_DeliveredDateSetOnce ==
  \A r \in Slots :
    LET q == req[r] IN
    (/\ q.pc = "done" /\ q.op = "refreshShippingTracking"
     /\ q.fetched /\ q.info.status = "delivered"
     /\ HadDoc(q) /\ PreDoc(q).deliveredDate # NoDate) =>
      /\ shipments[q.id].deliveredDate = PreDoc(q).deliveredDate
      /\ q.orderSaves = 0

\* C7: the order never has more than one shipment, however two addShipping
\* requests interleave.
C7_AtMostOneShipment == Len(shipments) <= 1

\* C10: a manual refresh of an existing shipment calls the adapter once,
\* whatever the shipment's lastUpdated.
C10_ManualRefreshAlwaysFetches ==
  \A r \in Slots :
    LET q == req[r] IN
    (q.op \in {"refreshTrackingInfo", "refreshTrackingInfoC"} /\ HadDoc(q)) =>
      \/ q.pc \in {"getTracking", "getTrackingC"} /\ q.calls = 0
      \/ q.calls = 1

\* C10 witness: a manual refresh of a shipment saved in the same instant has
\* called the adapter
C10_Witness ==
  \E r \in Slots :
    /\ req[r].op \in {"refreshTrackingInfo", "refreshTrackingInfoC"}
    /\ HadDoc(req[r])
    /\ PreDoc(req[r]).lastUpdated = req[r].at
    /\ req[r].calls = 1

---------------------------------------------------------------------------
(* Properties of the service and of what a refresh does with its result *)

\* a call on an adapter that returned a tracking result
Fetched == svc.fn \in {"getTracking", "parseResponse"} /\ ~svc.threw

\* the trackingHistory refreshTrackingInfoInternal leaves on the shipment for a
\* fetched result (line 81 assigns the result's events as they are)
StoredHistory(info) == ApplyTrackingInfo(NoShipment, info, now).trackingHistory

Descending(history) ==
  \A i \in 1..(Len(history) - 1) : history[i].timestamp >= history[i + 1].timestamp

StrictlyDescending(history) ==
  \A i \in 1..(Len(history) - 1) : history[i].timestamp > history[i + 1].timestamp

\* C11 (as amended): the trackingHistory a refresh stores is ordered by timestamp
\* descending; adjacent events may carry the same timestamp.
C11_Descending == Fetched => Descending(StoredHistory(svc.result))

\* C11 (as stated): every pair of adjacent stored events has strictly
\* decreasing timestamps.
C11_StrictlyDescending == Fetched => StrictlyDescending(StoredHistory(svc.result))

\* C11 witness: a fetch whose events were generated out of order (the creation
\* event is not the oldest) and are stored descending
C11_Witness ==
  /\ svc.fn = "getTracking"
  /\ LET history == StoredHistory(svc.result) IN
       /\ Len(history) > MinHistoryCount
       /\ history[Len(history)].statusCode # "pending"
       /\ Descending(history)

\* a finished request that saved the shipment it had found stored
SavedStored(q) == q.pc = "done" /\ q.saved /\ HadDoc(q)

\* C12: an operation that saves a stored shipment leaves it with at least as
\* many trackingHistory events as it had when the request arrived.
C12_HistoryNeverShrinks ==
  \A r \in Slots :
    SavedStored(req[r]) =>
      Len(shipments[req[r].id].trackingHistory) >=
        Len(PreDoc(req[r]).trackingHistory)

\* C13: a successful refresh whose fetch carries no estimate leaves the stored
\* estimatedDeliveryDate as it was; this is stated for every refresh handler.
C13_EstimateKeptWithoutFetchedEstimate ==
  \A r \in Slots :
    LET q == req[r] IN
    (SuccessfulRefresh(q) /\ HadDoc(q) /\ q.info.estimatedDeliveryDate = NoDate) =>
      shipments[q.id].estimatedDeliveryDate = PreDoc(q).estimatedDeliveryDate

\* a finished request of controller A that asked for, or fetched, the status
\* delivered for a stored shipment and answered without an error
CausedDelivered(q) ==
  /\ q.pc = "done" /\ ~q.failed /\ HadDoc(q)
  /\ \/ q.op = "updateShipping" /\ q.arg = "delivered"
     \/ /\ q.op = "addTrackingEvent"
        /\ q.arg # ""
        /\ mapStatusCode(createShippingTracker(PreDoc(q).carrier), q.arg) = "delivered"
     \/ /\ q.op \in {"getTrackingInfo", "refreshTrackingInfo"}
        /\ q.fetched /\ q.info.status = "delivered"

\* C14: whichever of the three paths reports delivered, a shipment whose
\* deliveredDate is unset gets one and its order is marked delivered, and a
\* shipment whose deliveredDate is set keeps it; this covers a shipment stored
\* as delivered with deliveredDate unset.
C14_DeliveredPathsAgree ==
  \A r \in Slots :
    LET q == req[r] IN
    CausedDelivered(q) =>
      IF PreDoc(q).deliveredDate = NoDate
      THEN /\ shipments[q.id].deliveredDate # NoDate
           /\ order.exists => order.status = "delivered"
      ELSE shipments[q.id].deliveredDate = PreDoc(q).deliveredDate

\* C15: a request whose call on the Order collaborator raised inside the
\* delivered block still persists the shipment's own update: the stored
\* shipment is delivered and has its deliveredDate.
C15_OrderFailureKeepsShipmentUpdate ==
  \A r \in Slots :
    LET q == req[r] IN
    (q.pc = "done" /\ q.orderFailed /\ q.id \in 1..Len(shipments)) =>
      /\ shipments[q.id].status = "delivered"
      /\ shipments[q.id].deliveredDate # NoDate

\* refreshTrackingInfoInternal run on its own on a stored document with a
\* fetched result: the document it saves
Refreshed(doc, info, t) ==
  LET d == ApplyTrackingInfo(doc, info, t) IN
  WithEstimate(IF FirstDelivery(d, info.status) THEN [d EXCEPT !.deliveredDate = t] ELSE d,
               info)

\* the paths of a shipment that a refresh decides, without the clock readings
\* taken by the handler itself
Persisted(doc) ==
  [status |-> doc.status,
   trackingHistory |-> doc.trackingHistory,
   statusHistory |-> doc.statusHistory,
   delivered |-> doc.deliveredDate # NoDate,
   estimatedDeliveryDate |-> doc.estimatedDeliveryDate]

\* two finished refreshes of one stored shipment that loaded the same document
\* (neither saw the other's save) and whose fetches both returned a result
RefreshedConcurrently(q1, q2) ==
  /\ q1.pc = "done" /\ q2.pc = "done"
  /\ q1.op \in {"getTrackingInfo", "refreshTrackingInfo"}
  /\ q2.op \in {"getTrackingInfo", "refreshTrackingInfo"}
  /\ q1.fetched /\ q2.fetched
  /\ q1.id = q2.id /\ q1.id \in 1..Len(shipments)
  /\ q1.loaded = q2.loaded

\* C16: after two concurrent refreshes of one shipment whose fetches both
\* succeeded, the stored shipment is what running the two refreshes one after
\* the other, in one of the two orders, would have stored.
C16_ConcurrentRefreshesSerialize ==
  \A r1, r2 \in Slots :
    (r1 # r2 /\ RefreshedConcurrently(req[r1], req[r2])) =>
      LET pre == req[r1].loaded
          i1 == req[r1].info
          i2 == req[r2].info
      IN Persisted(shipments[req[r1].id]) \in
           {Persisted(Refreshed(Refreshed(pre, i1, now), i2, now)),
            Persisted(Refreshed(Refreshed(pre, i2, now), i1, now))}

\* C17: createShippingTracker of a string whose lower-case form is none of the
\* case labels returns the fallback adapter MockTracker and raises nothing.
C17_UnknownCarrierGetsFallback ==
  (svc.fn = "createShippingTracker" /\ toLowerCase(svc.carrier) \notin KnownCarrierCodes) =>
    (svc.tracker = "MockTracker" /\ ~svc.threw)

\* C17 witness: the factory was called with a carrier it has no case for, in
\* mixed case, and answered
C17_Witness ==
  /\ svc.fn = "createShippingTracker"
  /\ svc.carrier = "UnknownCarrierXYZ"
  /\ toLowerCase(svc.carrier) \notin KnownCarrierCodes
  /\ svc.tracker = "MockTracker"

\* C18: two getTracking calls on the fallback adapter, for the same carrier and
\* tracking number, return without error the same status and the same events,
\* and the status is pending.
C18_FallbackDeterministicPending ==
  (svc.fn = "getTracking" /\ svc.tracker = "MockTracker" /\ svc.again # NoInfo) =>
    /\ ~svc.threw
    /\ svc.result.status = "pending"
    /\ svc.again.status = svc.result.status
    /\ svc.again.trackingHistory = svc.result.trackingHistory

\* a carrier for which createShippingTracker has no case
Unrecognized(carrier) == toLowerCase(carrier) \notin KnownCarrierCodes

\* C19: on a stored shipment whose carrier is not recognized, addTrackingEvent
\* carrying a status code answers without an error, and so does a refresh whose
\* fetch returned a result.
C19_UnknownCarrierNeverFails ==
  \A r \in Slots :
    LET q == req[r] IN
    (q.pc = "done" /\ HadDoc(q) /\ Unrecognized(PreDoc(q).carrier)) =>
      /\ (q.op = "addTrackingEvent" /\ q.arg # "") => (~q.failed /\ q.res = 200)
      /\ (q.op \in {"getTrackingInfo", "refreshTrackingInfo"} /\ q.fetched) => ~q.failed

\* C20: a DHL response whose carrier-level status is transit is parsed into a
\* tracking result of status in_transit.
C20_DhlTransitIsInTransit ==
  (svc.fn = "parseResponse" /\ ~svc.threw /\ svc.native = "transit") =>
    svc.result.status = "in_transit"

\* C21: mapStatusCode of every adapter answers, for every event status code, a
\* canonical status, and unknown for a code that is not in the adapter's table.
C21_MapStatusCodeTotal ==
  svc.fn = "mapStatusCode" =>
    /\ ~svc.threw
    /\ svc.result.status \in CanonicalStatuses
    /\ svc.native \notin StatusCodesOf(svc.tracker) => svc.result.status = "unknown"

\* C22: a result built from a response without a carrier-level status (a
\* parsed response whose status field is absent, or a generated one) carries
\* the status code of its most recent event, the first after the sort.
C22_StatusFromNewestEvent ==
  (Fetched /\ svc.native = "" /\ Len(svc.result.trackingHistory) > 0) =>
    svc.result.status = svc.result.trackingHistory[1].statusCode

\* C23: createShippingTracker returns the same adapter kind for a known code,
\* its aliases and every upper- and lower-case spelling of them.
C23_AliasesAndCase ==
  svc.fn = "createShippingTracker" =>
    LET code == toLowerCase(svc.carrier) IN
    /\ code = "dhl" => svc.tracker = "DHLTracker"
    /\ code = "ups" => svc.tracker = "UPSTracker"
    /\ code \in {"17", "17track"} => svc.tracker = "SeventeenTrackTracker"
    /\ code \in {"cn", "cainiao"} => svc.tracker = "CainiaoTracker"
    /\ code \in {"yun", "yuntu", "yunexpress"} => svc.tracker = "YunExpressTracker"

\* C23 witness: the factory was called with an alias in mixed case and
\* answered the adapter of the alias
C23_Witness ==
  /\ svc.fn = "createShippingTracker"
  /\ svc.carrier = "YunTu"
  /\ svc.tracker = "YunExpressTracker"

\* a finished refresh whose getTracking rejected
FetchRejected(q) ==
  /\ q.pc = "done"
  /\ q.op \in {"getTrackingInfo", "refreshTrackingInfo", "refreshTrackingInfoC"}
  /\ q.cause # ""

\* what the caller of a request receives
Response(q) == [status |-> q.res, error |-> q.error, shipping |-> Persisted(q.doc)]

\* C24: two refreshes whose fetches were rejected for different reasons - no
\* shipment for the tracking number, carrier unavailable - answer their
\* callers differently.
C24_FetchFailuresToldApart ==
  \A r1, r2 \in Slots :
    (/\ FetchRejected(req[r1]) /\ FetchRejected(req[r2])
     /\ req[r1].cause # req[r2].cause) =>
      Response(req[r1]) # Response(req[r2])

\* a finished addShipping whose creation-time getTracking rejected
CreatedWithoutFetch(q) ==
  /\ q.pc = "done"
  /\ q.op \in {"addShipping", "addShippingC"}
  /\ q.cause # ""

\* what addShipping leaves behind when its adapter call failed, the stored
\* shipment having the given status
CreatedBare(q, status) ==
  /\ q.res = 201 /\ q.error = ""
  /\ Len(q.preShipments) = 0 /\ Len(shipments) = 1 /\ q.id = 1
  /\ shipments[1].status = status
  /\ shipments[1].trackingHistory = <<>>
  /\ shipments[1].estimatedDeliveryDate = NoDate
  /\ shipments[1].deliveredDate = NoDate
  /\ order.status = "shipped"

TargetStatus(q) ==
  IF q.op = "updateShipping" THEN q.arg
  ELSE IF q.op \in {"getTrackingInfo", "refreshTrackingInfo"} /\ q.fetched
       THEN q.info.status
       ELSE ""

\* C26: a refresh reporting, or an updateShipping asking for, a canonical
\* status other than the stored one is accepted whatever the two statuses are:
\* the status is stored and the request answers without error.
C26_AnyTransitionAccepted ==
  \A r \in Slots :
    LET q == req[r] IN
    (/\ q.pc = "done" /\ HadDoc(q)
     /\ TargetStatus(q) \in CanonicalStatuses
     /\ TargetStatus(q) # PreDoc(q).status) =>
      /\ ~q.failed /\ q.saved
      /\ shipments[q.id].status = TargetStatus(q)

\* C27: a request that set a stored shipment's status to out_for_delivery or
\* unknown has it persisted: the shipment model stores every canonical status.
C27_EveryCanonicalStatusStored ==
  \A r \in Slots :
    LET q == req[r] IN
    (/\ q.pc = "done" /\ HadDoc(q)
     /\ q.op \in {"updateShipping", "addTrackingEvent", "getTrackingInfo",
                  "refreshTrackingInfo"}
     /\ q.doc.status \in {"out_for_delivery", "unknown"}) =>
      /\ q.saved
      /\ shipments[q.id].status = q.doc.status

\* C28: every event stored in a shipment's trackingHistory carries a canonical
\* status as its statusCode.
C28_StoredEventsCanonical ==
  \A i \in 1..Len(shipments) :
    \A k \in 1..Len(shipments[i].trackingHistory) :
      shipments[i].trackingHistory[k].statusCode \in CanonicalStatuses

\* C29: the trackingHistory of the shipment a successful request returns to its
\* caller is ordered by timestamp descending, manual insertions included.
C29_ReturnedHistoryDescending ==
  \A r \in Slots :
    LET q == req[r] IN
    (q.pc = "done" /\ q.res \in {200, 201} /\ q.id \in 1..Len(shipments)) =>
      Descending(q.doc.trackingHistory)

\* C30: in controller B, updateShipping with status delivered for an order's
\* undelivered shipment leaves the stored shipment with a deliveredDate and the
\* order delivered; on a shipment that has its deliveredDate it changes neither
\* the deliveredDate nor the order.
C30_ManualDeliveryOnceB ==
  \A r \in Slots :
    LET q == req[r]
        k == IF q.id >= 1 THEN q.id ELSE 1
    IN
    (/\ q.pc = "done" /\ q.op = "updateShippingB" /\ q.arg = "delivered"
     /\ Len(q.preShipments) >= 1 /\ ~q.orderFailed) =>
      IF q.preShipments[k].deliveredDate = NoDate
      THEN /\ shipments[k].deliveredDate # NoDate
           /\ order.exists => order.status = "delivered"
      ELSE /\ shipments[k].deliveredDate = q.preShipments[k].deliveredDate
           /\ order = q.preOrder

\* C31: exports.updateShipping that changes the carrier to a value other than
\* the stored one calls the adapter for the new carrier, and when that call
\* gives a result the stored trackingHistory is the fetched one (and the stored
\* status the fetched one when the request carried no status).
C31_CarrierChangeRefetches ==
  \A r \in Slots :
    LET q == req[r] IN
    (/\ q.pc = "done" /\ q.op = "updateShippingC" /\ q.res = 200 /\ HadDoc(q)
     /\ q.doc.carrier # PreDoc(q).carrier) =>
      /\ q.calls >= 1
      /\ q.fetched =>
           /\ shipments[q.id].trackingHistory = q.info.trackingHistory
           /\ q.arg = "" => shipments[q.id].status = q.info.status

\* the handlers of controller A that save a stored shipment
SavingOpsA == {"getTrackingInfo", "refreshTrackingInfo", "updateShipping", "addTrackingEvent"}

\* a step in which request r saves its shipment
SaveStep(r) ==
  /\ req[r].pc = "save" /\ req[r].op \in SavingOpsA
  /\ req'[r].saved

\* a finished getTrackingInfo that read a shipment no later than six hours
\* after the shipment's lastUpdated
ReadWithinSixHours(q) ==
  /\ q.pc = "done" /\ q.op = "getTrackingInfo" /\ HadDoc(q)
  /\ q.at <= PreDoc(q).lastUpdated + SixHours

\* C32: a refresh, updateShipping or addTrackingEvent that saves at time t
\* leaves the stored lastUpdated equal to t, and a getTrackingInfo that reads a
\* shipment up to and including six hours after its lastUpdated makes no
\* adapter call.
C32_FreshForSixHours ==
  /\ [][\A r \in Slots : SaveStep(r) => shipments'[req[r].id].lastUpdated = now]_vars
  /\ [](\A r \in Slots : ReadWithinSixHours(req[r]) => req[r].calls = 0)

\* C32 witness: a read exactly six hours after the save of a manual status
\* change answered without an adapter call
C32_Witness ==
  \E r \in Slots :
    /\ ReadWithinSixHours(req[r])
    /\ req[r].at = PreDoc(req[r]).lastUpdated + SixHours
    /\ PreDoc(req[r]).lastUpdated > 0
    /\ Len(PreDoc(req[r]).statusHistory) >= 2
    /\ req[r].calls = 0 /\ req[r].res = 200

\* the status of the last statusHistory entry ("null" when there is none)
LastHistoryStatus(doc) ==
  IF Len(doc.statusHistory) > 0
  THEN doc.statusHistory[Len(doc.statusHistory)].status
  ELSE "null"

\* C33: every stored shipment of controller A has a non-empty statusHistory
\* whose last entry carries the shipment's current status.
C33_HistoryEndsWithStatus ==
  \A i \in 1..Len(shipments) :
    /\ Len(shipments[i].statusHistory) >= 1
    /\ LastHistoryStatus(shipments[i]) = shipments[i].status

\* C33 witness: a manual status change was saved after a refresh had changed
\* the status before it
C33_Witness ==
  \E r \in Slots :
    /\ SavedStored(req[r])
    /\ req[r].op \in {"updateShipping", "addTrackingEvent"}
    /\ shipments[req[r].id].status # PreDoc(req[r]).status
    /\ Len(shipments[req[r].id].statusHistory) >= 3

\* the stored order carries the mark of a save that set it delivered
\* (deliveredAt is written by that save and by no other)
OrderWasMarkedDelivered == order.deliveredAt # NoDate

\* C34: in every state of the database, a stored shipment with a deliveredDate
\* whose order exists has an order that a save marked delivered: the order is
\* written before the shipment, so no state holds the delivered shipment
\* without the mark on its order.
C34_OrderMarkedBeforeShipment ==
  \A i \in 1..Len(shipments) :
    (shipments[i].deliveredDate # NoDate /\ order.exists) => OrderWasMarkedDelivered

\* C34 witness: a request waits to save its shipment as delivered while the
\* order is already stored as delivered and the stored shipment is not yet
C34_Witness ==
  \E r \in Slots :
    /\ req[r].pc = "save" /\ req[r].orderSaves >= 1
    /\ req[r].doc.deliveredDate # NoDate
    /\ shipments[req[r].id].deliveredDate = NoDate
    /\ order.exists /\ order.status = "delivered" /\ OrderWasMarkedDelivered

\* C35: under any interleaving of shipping requests the order's status never
\* goes from delivered back to shipped, and no state holds an order stored as
\* shipped next to a shipment with its deliveredDate set.
C35_DeliveredOrderStaysDelivered ==
  /\ [][order.status = "delivered" => order'.status # "shipped"]_vars
  /\ [](\A i \in 1..Len(shipments) :
          (shipments[i].deliveredDate # NoDate /\ order.exists) => order.status # "shipped")

\* C36: the shipment that getTrackingInfo and refreshTrackingInfo answer with
\* is the stored one: status, both histories, delivery and estimate of the
\* response are those of the database, also when the refresh failed part-way.
C36_ResponseIsPersisted ==
  \A r \in Slots :
    LET q == req[r] IN
    (/\ q.pc = "done" /\ q.op \in {"getTrackingInfo", "refreshTrackingInfo"}
     /\ q.res = 200 /\ HadDoc(q)) =>
      Persisted(q.doc) = Persisted(shipments[q.id])

\* C37: in every mock response the first event after the sort is the one
\* generated for i = 0 (stamped now, in transit or delivered, and it gives the
\* result status), and the last event is the pending creation event.
C37_MockEndsWithCreation ==
  (svc.fn = "getTracking" /\ ~svc.threw) =>
    LET h == svc.result.trackingHistory IN
    /\ Len(h) >= MinHistoryCount
    /\ h[1].timestamp = now
    /\ h[1].statusCode \in {"in_transit", "delivered"}
    /\ svc.result.status = h[1].statusCode
    /\ h[Len(h)].statusCode = "pending"

=============================================================================
